---------------------------- MODULE Spec2Model ----------------------------
(***************************************************************************)
(* Quota Builder front end: the JSON POST helper (src/lib/api.ts) and the  *)
(* three revisions of the page component (src/unnamed/part_000..002).      *)
(*                                                                         *)
(* Text is a sequence of characters (one-character strings), so that       *)
(* trim, slice and JSON.parse act on what the code gives them.  Fixed      *)
(* message texts are kept as one fragment each.                            *)
(***************************************************************************)
EXTENDS Integers, Sequences, FiniteSets, TLC

(***************************************************************************)
(* JavaScript values as they come out of JSON.parse.                       *)
(***************************************************************************)
Null == [t |-> "null"]

Undefined == [t |-> "undefined"]

JBool(b) == [t |-> "bool", b |-> b]

\* the number m / 10^e
JNum(m, e) == [t |-> "num", m |-> m, e |-> e]

JStr(s) == [t |-> "str", s |-> s]

JArr(a) == [t |-> "arr", a |-> a]

\* o: the properties as <<key, value>> records in property order
JObj(o) == [t |-> "obj", o |-> o]

\* ToBoolean, as `if (!x)` and `x && ...` use it
Truthy(v) ==
  CASE v.t = "null" -> FALSE
    [] v.t = "undefined" -> FALSE
    [] v.t = "bool" -> v.b
    [] v.t = "num" -> v.m # 0
    [] v.t = "str" -> v.s # <<>>
    [] OTHER -> TRUE

\* property read v.key (undefined when absent or v is no object)
Get(v, key) ==
  IF v.t = "obj" /\ \E i \in 1..Len(v.o) : v.o[i].k = key
  THEN v.o[CHOOSE i \in 1..Len(v.o) : v.o[i].k = key].v
  ELSE Undefined

Digit == {"0", "1", "2", "3", "4", "5", "6", "7", "8", "9"}

DigitVal(c) ==
  CASE c = "0" -> 0 [] c = "1" -> 1 [] c = "2" -> 2 [] c = "3" -> 3 [] c = "4" -> 4
    [] c = "5" -> 5 [] c = "6" -> 6 [] c = "7" -> 7 [] c = "8" -> 8 [] c = "9" -> 9

\* whitespace JSON.parse skips
JsonWs == {" ", "\n", "\t", "\r"}

\* whitespace String.prototype.trim strips (JSON's, and more: NBSP stands for U+00A0)
TrimWs == JsonWs \cup {"NBSP"}

\* the index of the first character at or after i that JSON.parse does not skip
SkipWs(t, i) ==
  IF \E j \in i..Len(t) : t[j] \notin JsonWs
  THEN CHOOSE j \in i..Len(t) : t[j] \notin JsonWs /\ \A k \in i..(j - 1) : t[k] \in JsonWs
  ELSE Len(t) + 1

\* text.trim()
Trim(t) ==
  IF \A i \in 1..Len(t) : t[i] \in TrimWs THEN <<>>
  ELSE LET lo == CHOOSE i \in 1..Len(t) :
                   t[i] \notin TrimWs /\ \A k \in 1..(i - 1) : t[k] \in TrimWs
           hi == CHOOSE i \in 1..Len(t) :
                   t[i] \notin TrimWs /\ \A k \in (i + 1)..Len(t) : t[k] \in TrimWs
       IN  SubSeq(t, lo, hi)

\* text.slice(0, n)
Slice(t, n) == SubSeq(t, 1, IF Len(t) < n THEN Len(t) ELSE n)

PFail == [ok |-> FALSE, v |-> Undefined, i |-> 0]

POk(v, i) == [ok |-> TRUE, v |-> v, i |-> i]

\* the run of digits starting at i: <<value, count, next index>>
RECURSIVE ScanDigits(_, _, _, _)
ScanDigits(t, i, acc, n) ==
  IF i <= Len(t) /\ t[i] \in Digit
  THEN ScanDigits(t, i + 1, acc * 10 + DigitVal(t[i]), n + 1)
  ELSE <<acc, n, i>>

\* -? int frac?   (no exponent part)
ParseNumber(t, i) ==
  LET neg == t[i] = "-"
      s == IF neg THEN i + 1 ELSE i
      ip == ScanDigits(t, s, 0, 0)
      hasFrac == ip[3] <= Len(t) /\ t[ip[3]] = "."
      fp == ScanDigits(t, ip[3] + 1, ip[1], 0)
      sign == IF neg THEN -1 ELSE 1
  IN  IF ip[2] = 0 \/ (ip[2] > 1 /\ t[s] = "0") THEN PFail
      ELSE IF ~hasFrac THEN POk(JNum(sign * ip[1], 0), ip[3])
      ELSE IF fp[2] = 0 THEN PFail
      ELSE POk(JNum(sign * fp[1], fp[2]), fp[3])

\* the characters up to the closing quote; of the escapes, \" \\ and \/ are read
RECURSIVE ParseString(_, _, _)
ParseString(t, i, acc) ==
  IF i > Len(t) \/ t[i] \in {"\n", "\t", "\r"} THEN PFail
  ELSE IF t[i] = "\"" THEN POk(JStr(acc), i + 1)
  ELSE IF t[i] = "\\"
  THEN IF i + 1 <= Len(t) /\ t[i + 1] \in {"\"", "\\", "/"}
       THEN ParseString(t, i + 2, Append(acc, t[i + 1]))
       ELSE PFail
  ELSE ParseString(t, i + 1, Append(acc, t[i]))

\* whether t[i..] starts with the characters of w
StartsWith(t, i, w) ==
  /\ i + Len(w) - 1 <= Len(t)
  /\ \A k \in 1..Len(w) : t[i + k - 1] = w[k]

\* a canonical array index ("0", "7", "12"), which objects list first, ascending
IsIndexKey(k) ==
  /\ k # <<>>
  /\ \A i \in 1..Len(k) : k[i] \in Digit
  /\ (Len(k) > 1 => k[1] # "0")

IndexVal(k) == ScanDigits(k, 1, 0, 0)[1]

\* o[key] = v on an object under construction: a repeated key keeps its place
ObjPut(o, k, v) ==
  IF \E i \in 1..Len(o) : o[i].k = k
  THEN [i \in 1..Len(o) |-> IF o[i].k = k THEN [k |-> k, v |-> v] ELSE o[i]]
  ELSE IF IsIndexKey(k)
  THEN LET before == SelectSeq(o, LAMBDA p : IsIndexKey(p.k) /\ IndexVal(p.k) < IndexVal(k))
           after == SelectSeq(o, LAMBDA p : ~(IsIndexKey(p.k) /\ IndexVal(p.k) < IndexVal(k)))
       IN  before \o <<[k |-> k, v |-> v]>> \o after
  ELSE Append(o, [k |-> k, v |-> v])

RECURSIVE ParseValue(_, _), ParseMembers(_, _, _), ParseElements(_, _, _)

ParseValue(t, i) ==
  LET j == SkipWs(t, i) IN
  IF j > Len(t) THEN PFail
  ELSE IF t[j] = "{"
  THEN LET k == SkipWs(t, j + 1) IN
       IF k <= Len(t) /\ t[k] = "}" THEN POk(JObj(<<>>), k + 1)
       ELSE ParseMembers(t, k, <<>>)
  ELSE IF t[j] = "["
  THEN LET k == SkipWs(t, j + 1) IN
       IF k <= Len(t) /\ t[k] = "]" THEN POk(JArr(<<>>), k + 1)
       ELSE ParseElements(t, k, <<>>)
  ELSE IF t[j] = "\"" THEN ParseString(t, j + 1, <<>>)
  ELSE IF t[j] \in Digit \cup {"-"} THEN ParseNumber(t, j)
  ELSE IF StartsWith(t, j, <<"n", "u", "l", "l">>) THEN POk(Null, j + 4)
  ELSE IF StartsWith(t, j, <<"t", "r", "u", "e">>) THEN POk(JBool(TRUE), j + 4)
  ELSE IF StartsWith(t, j, <<"f", "a", "l", "s", "e">>) THEN POk(JBool(FALSE), j + 5)
  ELSE PFail

\* "key" : value ( , "key" : value )* }
ParseMembers(t, i, acc) ==
  IF i > Len(t) \/ t[i] # "\"" THEN PFail
  ELSE LET key == ParseString(t, i + 1, <<>>)
           c == SkipWs(t, key.i)
           val == ParseValue(t, c + 1)
           e == SkipWs(t, val.i)
       IN  IF ~key.ok \/ c > Len(t) \/ t[c] # ":" THEN PFail
           ELSE IF ~val.ok \/ e > Len(t) THEN PFail
           ELSE IF t[e] = "}" THEN POk(JObj(ObjPut(acc, key.v.s, val.v)), e + 1)
           ELSE IF t[e] = ","
           THEN ParseMembers(t, SkipWs(t, e + 1), ObjPut(acc, key.v.s, val.v))
           ELSE PFail

\* value ( , value )* ]
ParseElements(t, i, acc) ==
  LET val == ParseValue(t, i)
      e == SkipWs(t, val.i)
  IN  IF ~val.ok \/ e > Len(t) THEN PFail
      ELSE IF t[e] = "]" THEN POk(JArr(Append(acc, val.v)), e + 1)
      ELSE IF t[e] = "," THEN ParseElements(t, e + 1, Append(acc, val.v))
      ELSE PFail

\* JSON.parse(text): ok = no SyntaxError
JsonParse(t) ==
  LET r == ParseValue(t, 1) IN
  IF r.ok /\ SkipWs(t, r.i) > Len(t) THEN [ok |-> TRUE, v |-> r.v]
  ELSE [ok |-> FALSE, v |-> Undefined]

(***************************************************************************)
(* String literals of the source, as character sequences.                  *)
(***************************************************************************)
k_sex == <<"s", "e", "x">>

l_sex == <<"S", "e", "x">>

k_age_group == <<"a", "g", "e", "_", "g", "r", "o", "u", "p">>

l_age_group == <<"A", "g", "e", " ", "G", "r", "o", "u", "p">>

k_county == <<"c", "o", "u", "n", "t", "y">>

l_county == <<"C", "o", "u", "n", "t", "y">>

k_region == <<"r", "e", "g", "i", "o", "n">>

l_region == <<"R", "e", "g", "i", "o", "n">>

k_tallinn_districts ==
  <<
    "t", "a", "l", "l", "i", "n", "n", "_", "d", "i", "s", "t", "r", "i", "c", "t", "s"
  >>

l_tallinn_districts ==
  <<
    "T", "a", "l", "l", "i", "n", "n", " ", "D", "i", "s", "t", "r", "i", "c", "t", "s"
  >>

k_settlement_type == <<"s", "e", "t", "t", "l", "e", "m", "e", "n", "t", "_", "t", "y", "p", "e">>

l_settlement_type == <<"S", "e", "t", "t", "l", "e", "m", "e", "n", "t", " ", "T", "y", "p", "e">>

k_education == <<"e", "d", "u", "c", "a", "t", "i", "o", "n">>

l_education == <<"E", "d", "u", "c", "a", "t", "i", "o", "n">>

k_nationality == <<"n", "a", "t", "i", "o", "n", "a", "l", "i", "t", "y">>

l_nationality == <<"N", "a", "t", "i", "o", "n", "a", "l", "i", "t", "y">>

k_birth_country == <<"b", "i", "r", "t", "h", "_", "c", "o", "u", "n", "t", "r", "y">>

l_birth_country == <<"B", "i", "r", "t", "h", " ", "C", "o", "u", "n", "t", "r", "y">>

k_citizenship_country ==
  <<
    "c", "i", "t", "i", "z", "e", "n", "s", "h", "i", "p", "_", "c", "o", "u", "n", "t", "r",
    "y"
  >>

l_citizenship_country ==
  <<
    "C", "i", "t", "i", "z", "e", "n", "s", "h", "i", "p", " ", "C", "o", "u", "n", "t", "r",
    "y"
  >>

sf_total == <<"t", "o", "t", "a", "l">>

sf_men == <<"m", "e", "n">>

sf_women == <<"w", "o", "m", "e", "n">>

p_reference == <<"r", "e", "f", "e", "r", "e", "n", "c", "e">>

p_year == <<"y", "e", "a", "r">>

p_age_band == <<"a", "g", "e", "_", "b", "a", "n", "d">>

p_from == <<"f", "r", "o", "m">>

p_to == <<"t", "o">>

p_sample_n == <<"s", "a", "m", "p", "l", "e", "_", "n">>

p_age_grouping_years ==
  <<
    "a", "g", "e", "_", "g", "r", "o", "u", "p", "i", "n", "g", "_", "y", "e", "a", "r", "s"
  >>

p_dimensions == <<"d", "i", "m", "e", "n", "s", "i", "o", "n", "s">>

p_sex_filter == <<"s", "e", "x", "_", "f", "i", "l", "t", "e", "r">>

p_results == <<"r", "e", "s", "u", "l", "t", "s">>

p_cells == <<"c", "e", "l", "l", "s">>

p_label == <<"l", "a", "b", "e", "l">>

p_pop == <<"p", "o", "p">>

p_share == <<"s", "h", "a", "r", "e">>

p_quota == <<"q", "u", "o", "t", "a">>

p_meta == <<"m", "e", "t", "a">>

p_errors == <<"e", "r", "r", "o", "r", "s">>

p_population_total ==
  <<
    "p", "o", "p", "u", "l", "a", "t", "i", "o", "n", "_", "t", "o", "t", "a", "l"
  >>

p_base == <<"b", "a", "s", "e">>

p_notes == <<"n", "o", "t", "e", "s">>

p_id == <<"i", "d">>

CalculatePath ==
  <<
    "/", "v", "1", "/", "q", "u", "o", "t", "a", "s", "/", "c", "a", "l", "c", "u", "l", "a",
    "t", "e"
  >>

\* the decimal digits of n >= 0
RECURSIVE DigitsOf(_)
DigitsOf(n) ==
  LET d == <<"0", "1", "2", "3", "4", "5", "6", "7", "8", "9">>[(n % 10) + 1] IN
  IF n < 10 THEN <<d>> ELSE Append(DigitsOf(n \div 10), d)

\* n as exactly w digits (zero-padded on the left)
RECURSIVE PadDigits(_, _)
PadDigits(n, w) == IF w = 0 THEN <<>> ELSE Append(PadDigits(n \div 10, w - 1), DigitsOf(n % 10)[1])

\* 10^e
RECURSIVE Pow10(_)
Pow10(e) == IF e = 0 THEN 1 ELSE 10 * Pow10(e - 1)

\* the quoted form of a string: quote and backslash are escaped
RECURSIVE Quote(_)
Quote(s) ==
  IF s = <<>> THEN <<>>
  ELSE (IF Head(s) \in {"\"", "\\"} THEN <<"\\", Head(s)>> ELSE <<Head(s)>>) \o Quote(Tail(s))

RECURSIVE JsonStringify(_), StringifyMembers(_), StringifyElements(_)

\* JSON.stringify(v) for the values a request payload holds
JsonStringify(v) ==
  CASE v.t = "null" -> <<"n", "u", "l", "l">>
    [] v.t = "bool" -> IF v.b THEN <<"t", "r", "u", "e">> ELSE <<"f", "a", "l", "s", "e">>
    [] v.t = "num" ->
         LET a == IF v.m < 0 THEN -v.m ELSE v.m
             sign == IF v.m < 0 THEN <<"-">> ELSE <<>>
         IN  IF v.e = 0 THEN sign \o DigitsOf(a)
             ELSE sign \o DigitsOf(a \div Pow10(v.e)) \o <<".">> \o PadDigits(a % Pow10(v.e), v.e)
    [] v.t = "str" -> <<"\"">> \o Quote(v.s) \o <<"\"">>
    [] v.t = "arr" -> <<"[">> \o StringifyElements(v.a) \o <<"]">>
    [] v.t = "obj" -> <<"{">> \o StringifyMembers(v.o) \o <<"}">>

StringifyMembers(o) ==
  IF o = <<>> THEN <<>>
  ELSE <<"\"">> \o Quote(o[1].k) \o <<"\"", ":">> \o JsonStringify(o[1].v)
       \o (IF Len(o) > 1 THEN <<",">> \o StringifyMembers(Tail(o)) ELSE <<>>)

StringifyElements(a) ==
  IF a = <<>> THEN <<>>
  ELSE JsonStringify(a[1]) \o (IF Len(a) > 1 THEN <<",">> \o StringifyElements(Tail(a)) ELSE <<>>)

(***************************************************************************)
(* src/lib/api.ts                                                          *)
(***************************************************************************)
MsgMissingBase ==
  <<"Missing NEXT_PUBLIC_API_BASE. Set it in .env.local and in Vercel env vars.">>

MsgEmptyBody == <<"API returned empty response body.">>

\* how much of a body an error message quotes
SliceLen == 500

\* getApiBase(): base is process.env.NEXT_PUBLIC_API_BASE (Undefined when unset)
getApiBase(base) ==
  IF ~Truthy(base) THEN [threw |-> TRUE, message |-> MsgMissingBase, value |-> <<>>]
  ELSE [threw |-> FALSE, message |-> <<>>,
        value |-> IF base.s[Len(base.s)] = "/" THEN SubSeq(base.s, 1, Len(base.s) - 1)
                  ELSE base.s]

\* postJson up to its first await: the fetch it issues, or the error getApiBase throws
postJsonSend(base, path, payload) ==
  LET b == getApiBase(base) IN
  IF b.threw THEN [threw |-> TRUE, message |-> b.message, fetches |-> <<>>]
  ELSE [threw |-> FALSE, message |-> <<>>,
        fetches |-> <<[url |-> b.value \o path, method |-> "POST",
                       contentType |-> "application/json",
                       body |-> JsonStringify(payload)]>>]

\* postJsonReceive, testing for an empty body before the status
postJsonReceiveEmptyFirst(status, text) ==
  LET parsed == JsonParse(text) IN
  IF Trim(text) = <<>>
  THEN [threw |-> TRUE, value |-> Undefined, message |-> <<"API returned empty response body.">>]
  ELSE IF ~(status >= 200 /\ status <= 299)
  THEN [threw |-> TRUE, value |-> Undefined,
        message |-> <<"API ">> \o DigitsOf(status) \o <<": ">> \o Slice(text, 500)]
  ELSE IF parsed.ok
  THEN [threw |-> FALSE, value |-> parsed.v, message |-> <<>>]
  ELSE [threw |-> TRUE, value |-> Undefined,
        message |-> <<"API returned non-JSON: ">> \o Slice(text, 500)]

\* res.ok
ResOk(status) == status >= 200 /\ status <= 299

\* postJson from the response on: the value it resolves to, or the error it throws
postJsonReceive(status, text) ==
  LET parsed == JsonParse(text) IN
  IF ~ResOk(status)
  THEN [threw |-> TRUE, value |-> Undefined,
        message |-> <<"API ">> \o DigitsOf(status) \o <<": ">> \o Slice(text, SliceLen)]
  ELSE IF Trim(text) = <<>>
  THEN [threw |-> TRUE, value |-> Undefined, message |-> MsgEmptyBody]
  ELSE IF parsed.ok
  THEN [threw |-> FALSE, value |-> parsed.v, message |-> <<>>]
  ELSE [threw |-> TRUE, value |-> Undefined,
        message |-> <<"API returned non-JSON: ">> \o Slice(text, SliceLen)]

\* postJson(path, payload) against a server that answers (status, text)
postJson(base, path, payload, status, text) ==
  LET s == postJsonSend(base, path, payload)
      r == postJsonReceive(status, text)
  IN  IF s.threw
      THEN [threw |-> TRUE, value |-> Undefined, message |-> s.message, fetches |-> s.fetches]
      ELSE [threw |-> r.threw, value |-> r.value, message |-> r.message, fetches |-> s.fetches]

c_Dimension == <<"D", "i", "m", "e", "n", "s", "i", "o", "n">>

c_Label == <<"L", "a", "b", "e", "l">>

c_Population == <<"P", "o", "p", "u", "l", "a", "t", "i", "o", "n">>

c_SharePercent == <<"S", "h", "a", "r", "e", "P", "e", "r", "c", "e", "n", "t">>

c_SharePct == <<"S", "h", "a", "r", "e", " ", "%">>

c_Quota == <<"Q", "u", "o", "t", "a">>

FilePrefix == <<"q", "u", "o", "t", "a", "_", "r", "e", "s", "u", "l", "t", "s">>

FileSuffix == <<".", "x", "l", "s", "x">>

SheetName == <<"Q", "u", "o", "t", "a", "s">>

BaseUrl == <<"h", "t", "t", "p", "s", ":", "/", "/", "a", "p", "i", ".", "t", "e", "s", "t">>

BaseUrlSlash ==
  <<
    "h", "t", "t", "p", "s", ":", "/", "/", "a", "p", "i", ".", "t", "e", "s", "t", "/"
  >>

BodyCounty ==
  <<
    "{", "\"", "p", "o", "p", "u", "l", "a", "t", "i", "o", "n", "_", "t", "o", "t", "a", "l",
    "\"", ":", "9", "0", "0", "0", "0", "0", ",", "\"", "s", "a", "m", "p", "l", "e", "_", "n",
    "\"", ":", "1", "0", "0", "0", ",", "\"", "r", "e", "s", "u", "l", "t", "s", "\"", ":",
    "{", "\"", "c", "o", "u", "n", "t", "y", "\"", ":", "{", "\"", "b", "a", "s", "e", "\"",
    ":", "9", "0", "0", "0", "0", "0", ",", "\"", "c", "e", "l", "l", "s", "\"", ":", "[", "{",
    "\"", "i", "d", "\"", ":", "\"", "c", "1", "\"", ",", "\"", "l", "a", "b", "e", "l", "\"",
    ":", "\"", "H", "a", "r", "j", "u", "\"", ",", "\"", "p", "o", "p", "\"", ":", "6", "0",
    "0", "0", "0", "0", ",", "\"", "s", "h", "a", "r", "e", "\"", ":", "0", ".", "6", "6", "6",
    "7", ",", "\"", "q", "u", "o", "t", "a", "\"", ":", "6", "6", "7", "}", "]", "}", "}", "}"
  >>

BodyPartial ==
  <<
    "{", "\"", "p", "o", "p", "u", "l", "a", "t", "i", "o", "n", "_", "t", "o", "t", "a", "l",
    "\"", ":", "9", "0", ",", "\"", "s", "a", "m", "p", "l", "e", "_", "n", "\"", ":", "9",
    ",", "\"", "r", "e", "s", "u", "l", "t", "s", "\"", ":", "{", "\"", "s", "e", "x", "\"",
    ":", "{", "\"", "b", "a", "s", "e", "\"", ":", "9", "0", ",", "\"", "c", "e", "l", "l",
    "s", "\"", ":", "[", "{", "\"", "i", "d", "\"", ":", "\"", "m", "\"", ",", "\"", "l", "a",
    "b", "e", "l", "\"", ":", "\"", "M", "e", "n", "\"", ",", "\"", "p", "o", "p", "\"", ":",
    "3", "0", ",", "\"", "s", "h", "a", "r", "e", "\"", ":", "0", ".", "3", "3", "3", "3", "3",
    ",", "\"", "q", "u", "o", "t", "a", "\"", ":", "3", "}", ",", "{", "\"", "i", "d", "\"",
    ":", "\"", "w", "\"", ",", "\"", "l", "a", "b", "e", "l", "\"", ":", "\"", "W", "o", "m",
    "e", "n", "\"", ",", "\"", "p", "o", "p", "\"", ":", "6", "0", ",", "\"", "s", "h", "a",
    "r", "e", "\"", ":", "0", ".", "6", "6", "6", "6", "7", ",", "\"", "q", "u", "o", "t", "a",
    "\"", ":", "6", "}", "]", "}", ",", "\"", "m", "y", "_", "d", "i", "m", "\"", ":", "{",
    "\"", "b", "a", "s", "e", "\"", ":", "9", "0", ",", "\"", "c", "e", "l", "l", "s", "\"",
    ":", "[", "{", "\"", "i", "d", "\"", ":", "\"", "a", "\"", ",", "\"", "l", "a", "b", "e",
    "l", "\"", ":", "\"", "A", "l", "l", "\"", ",", "\"", "p", "o", "p", "\"", ":", "9", "0",
    ",", "\"", "s", "h", "a", "r", "e", "\"", ":", "1", ",", "\"", "q", "u", "o", "t", "a",
    "\"", ":", "9", "}", "]", "}", "}", ",", "\"", "m", "e", "t", "a", "\"", ":", "{", "\"",
    "e", "r", "r", "o", "r", "s", "\"", ":", "{", "\"", "c", "o", "u", "n", "t", "y", "\"",
    ":", "\"", "t", "i", "m", "e", "o", "u", "t", "\"", "}", "}", "}"
  >>

BodyExploded == <<"s", "e", "r", "v", "e", "r", " ", "e", "x", "p", "l", "o", "d", "e", "d">>

BodyNotJson == <<"<", "n", "o", "t", " ", "j", "s", "o", "n", ">">>

(***************************************************************************)
(* The page component.  page says which of the three revisions runs.       *)
(***************************************************************************)
Pages == {"part_000", "part_001", "part_002"}

DIMENSIONS ==
  << [key |-> k_sex, label |-> l_sex],
     [key |-> k_age_group, label |-> l_age_group],
     [key |-> k_county, label |-> l_county],
     [key |-> k_region, label |-> l_region],
     [key |-> k_tallinn_districts, label |-> l_tallinn_districts],
     [key |-> k_settlement_type, label |-> l_settlement_type],
     [key |-> k_education, label |-> l_education],
     [key |-> k_nationality, label |-> l_nationality],
     [key |-> k_birth_country, label |-> l_birth_country],
     [key |-> k_citizenship_country, label |-> l_citizenship_country] >>

LowerCase ==
  << "a", "b", "c", "d", "e", "f", "g", "h", "i", "j", "k", "l", "m",
     "n", "o", "p", "q", "r", "s", "t", "u", "v", "w", "x", "y", "z" >>

UpperCase ==
  << "A", "B", "C", "D", "E", "F", "G", "H", "I", "J", "K", "L", "M",
     "N", "O", "P", "Q", "R", "S", "T", "U", "V", "W", "X", "Y", "Z" >>

\* c.toUpperCase()
ToUpper(c) ==
  IF \E i \in 1..26 : LowerCase[i] = c
  THEN UpperCase[CHOOSE i \in 1..26 : LowerCase[i] = c]
  ELSE c

\* the class \w
WordChar ==
  {LowerCase[i] : i \in 1..26} \cup {UpperCase[i] : i \in 1..26} \cup Digit \cup {"_"}

\* key.replace(/_/g, " ")
ReplaceUnderscores(s) == [i \in 1..Len(s) |-> IF s[i] = "_" THEN " " ELSE s[i]]

\* s.replace(/\b\w/g, (c) => c.toUpperCase())
TitleCase(s) ==
  [i \in 1..Len(s) |->
     IF s[i] \in WordChar /\ (i = 1 \/ s[i - 1] \notin WordChar) THEN ToUpper(s[i]) ELSE s[i]]

\* prettyDim (part_000), prettyKey (part_001)
prettyDim(key) ==
  IF \E i \in 1..Len(DIMENSIONS) : DIMENSIONS[i].key = key
  THEN DIMENSIONS[CHOOSE i \in 1..Len(DIMENSIONS) :
                    /\ DIMENSIONS[i].key = key
                    /\ \A j \in 1..(i - 1) : DIMENSIONS[j].key # key].label
  ELSE TitleCase(ReplaceUnderscores(key))

\* the Dimension field of an export row
DimensionLabel(p, dim) == IF p = "part_002" THEN dim ELSE prettyDim(dim)

\* the name of the share column of an export row
ShareColumn(p) == IF p = "part_000" THEN c_SharePct ELSE c_SharePercent

\* whether the Calculate button carries disabled={loading}
DisablesCalculate(p) == p \in {"part_000", "part_002"}

\* whether the page renders data.meta.errors
ShowsMetaErrors(p) == p \in {"part_000", "part_002"}

\* a number without trailing zeros in its fraction (33.30 is 33.3)
RECURSIVE NormNum(_)
NormNum(n) == IF n.e > 0 /\ n.m % 10 = 0 THEN NormNum(JNum(n.m \div 10, n.e - 1)) ELSE n

NaN == [t |-> "nan"]

(***************************************************************************)
(* IEEE 754 double arithmetic, as far as (share * 100).toFixed(2) needs it. *)
(* A natural number of any size is the sequence of its digits in base      *)
(* 2^20, least significant first, without leading zeros (0 is <<>>). A     *)
(* positive double is [m, s]: the value m / 2^s with 2^52 <= m <= 2^53;    *)
(* zero is [m |-> <<>>, s |-> 0]. Magnitudes stay in the normal range.     *)
(***************************************************************************)
BigBase == 2^20

RECURSIVE BigOf(_)
BigOf(n) == IF n = 0 THEN <<>> ELSE <<n % BigBase>> \o BigOf(n \div BigBase)

\* a * k + c, for 1 <= k <= 1024 and 0 <= c < 1024
RECURSIVE BigMulAdd(_, _, _)
BigMulAdd(a, k, c) ==
  IF a = <<>> THEN BigOf(c)
  ELSE LET t == Head(a) * k + c IN
       <<t % BigBase>> \o BigMulAdd(Tail(a), k, t \div BigBase)

BigMul(a, k) == BigMulAdd(a, k, 0)

BigInc(a) == BigMulAdd(a, 1, 1)

\* quotient and remainder of a by d, for 0 < d <= 1024
RECURSIVE BigDiv(_, _)
BigDiv(a, d) ==
  IF a = <<>> THEN [q |-> <<>>, r |-> 0]
  ELSE LET hi == BigDiv(Tail(a), d)
           t == hi.r * BigBase + Head(a)
       IN  [q |-> IF hi.q = <<>> /\ t \div d = 0 THEN <<>> ELSE <<t \div d>> \o hi.q,
            r |-> t % d]

\* the value of a, for a below 2^31
RECURSIVE BigToInt(_)
BigToInt(a) == IF a = <<>> THEN 0 ELSE Head(a) + BigBase * BigToInt(Tail(a))

\* the number of binary digits of n
RECURSIVE Bits(_)
Bits(n) == IF n = 0 THEN 0 ELSE 1 + Bits(n \div 2)

BitLen(a) == IF a = <<>> THEN 0 ELSE 20 * (Len(a) - 1) + Bits(a[Len(a)])

BigOdd(a) == a # <<>> /\ a[1] % 2 = 1

\* a * 2^n
RECURSIVE Shl(_, _)
Shl(a, n) ==
  IF n = 0 THEN a
  ELSE IF n >= 10 THEN Shl(BigMul(a, 1024), n - 10)
  ELSE Shl(BigMul(a, 2), n - 1)

\* floor(a / 2^n)
RECURSIVE Shr(_, _)
Shr(a, n) ==
  IF n = 0 THEN a
  ELSE IF n >= 10 THEN Shr(BigDiv(a, 1024).q, n - 10)
  ELSE Shr(BigDiv(a, 2).q, n - 1)

\* floor(a / 10^e), and whether the division left a remainder
RECURSIVE DivPow10(_, _)
DivPow10(a, e) ==
  IF e = 0 THEN [q |-> a, inexact |-> FALSE]
  ELSE LET d == BigDiv(a, 10)
           rest == DivPow10(d.q, e - 1)
       IN  [q |-> rest.q, inexact |-> rest.inexact \/ d.r # 0]

\* q / 2^s, q of more than 53 binary digits, rounded to 53 of them, to the
\* nearest and to the even one on a tie; inexact: digits were lost below q
RoundToDouble(q, s, inexact) ==
  LET k == BitLen(q) - 53
      lead == Shr(q, k - 1)
      kept == BigDiv(lead, 2)
      below == inexact \/ Shl(lead, k - 1) # q
      up == kept.r = 1 /\ (below \/ BigOdd(kept.q))
  IN  [m |-> IF up THEN BigInc(kept.q) ELSE kept.q, s |-> s - k]

\* the double nearest to a / 10^e, reached by doubling a until the quotient
\* has 54 binary digits (a carries the factor 2^s)
RECURSIVE ScaleToDouble(_, _, _)
ScaleToDouble(a, e, s) ==
  LET d == DivPow10(a, e) IN
  IF BitLen(d.q) < 44 THEN ScaleToDouble(BigMul(a, 1024), e, s + 10)
  ELSE IF BitLen(d.q) < 54 THEN ScaleToDouble(BigMul(a, 2), e, s + 1)
  ELSE RoundToDouble(d.q, s, d.inexact)

\* the Number JSON.parse yields for the decimal m / 10^e, m >= 0
ToDouble(m, e) == IF m = 0 THEN [m |-> <<>>, s |-> 0] ELSE ScaleToDouble(BigOf(m), e, 0)

\* x * k in double arithmetic, for a factor 2 <= k <= 1024 that is no power of 2
DoubleTimes(x, k) ==
  IF x.m = <<>> THEN x ELSE RoundToDouble(BigMul(x.m, k), x.s, FALSE)

\* x.toFixed(2) as a count of hundredths: the integer n with n / 100 nearest
\* to x, the larger one on a tie; for 0 <= x < 10^7
ToFixed2(x) ==
  LET twice == IF x.s >= 0 THEN Shr(BigMul(x.m, 200), x.s)
               ELSE Shl(BigMul(x.m, 200), 0 - x.s)
  IN  (BigToInt(twice) + 1) \div 2

\* Number((share * 100).toFixed(2)), computed
SharePercentOf(share) ==
  IF share.t # "num" THEN NaN
  ELSE IF share.m >= 0
  THEN NormNum(JNum(ToFixed2(DoubleTimes(ToDouble(share.m, share.e), 100)), 2))
  ELSE NormNum(JNum(0 - ToFixed2(DoubleTimes(ToDouble(0 - share.m, share.e), 100)), 2))

\* what the service answers to a request
Replies ==
  { [status |-> 200, text |-> BodyCounty],
    [status |-> 200, text |-> BodyPartial],
    [status |-> 500, text |-> BodyExploded],
    [status |-> 200, text |-> <<>>],
    [status |-> 200, text |-> BodyNotJson] }

\* the results objects of the answers that parse
ReplyResults ==
  {res \in {Get(JsonParse(r.text).v, p_results) : r \in Replies} : res.t = "obj"}

\* the cells of the answers
ReplyCells ==
  UNION { {cs.a[i] : i \in 1..Len(cs.a)} :
          cs \in {x \in UNION { {Get(res.o[i].v, p_cells) : i \in 1..Len(res.o)} :
                                res \in ReplyResults } : x.t = "arr"} }

\* SharePercentOf, computed once for each share the answers hold
sharePercents == [share \in {Get(c, p_share) : c \in ReplyCells} |-> SharePercentOf(share)]

\* Number((share * 100).toFixed(2))
SharePercent(share) ==
  IF share \in DOMAIN sharePercents THEN sharePercents[share] ELSE SharePercentOf(share)

\* Object.entries(v); thrown = TypeError (v is null or undefined)
ObjectEntries(v) ==
  CASE v.t \in {"null", "undefined"} -> [threw |-> TRUE, entries |-> <<>>]
    [] v.t = "obj" -> [threw |-> FALSE, entries |-> v.o]
    [] v.t = "arr" ->
         [threw |-> FALSE,
          entries |-> [i \in 1..Len(v.a) |-> [k |-> DigitsOf(i - 1), v |-> v.a[i]]]]
    [] v.t = "str" ->
         [threw |-> FALSE,
          entries |-> [i \in 1..Len(v.s) |-> [k |-> DigitsOf(i - 1), v |-> JStr(<<v.s[i]>>)]]]
    [] OTHER -> [threw |-> FALSE, entries |-> <<>>]

\* the elements `for (const c of v)` visits; thrown = TypeError (v is not iterable)
Iterate(v) ==
  CASE v.t = "arr" -> [threw |-> FALSE, items |-> v.a]
    [] v.t = "str" -> [threw |-> FALSE, items |-> [i \in 1..Len(v.s) |-> JStr(<<v.s[i]>>)]]
    [] OTHER -> [threw |-> TRUE, items |-> <<>>]

\* the row downloadExcel pushes for cell c of dimension dim
ExportRow(p, dim, c) ==
  JObj(<< [k |-> c_Dimension, v |-> JStr(DimensionLabel(p, dim))],
          [k |-> c_Label, v |-> Get(c, p_label)],
          [k |-> c_Population, v |-> Get(c, p_pop)],
          [k |-> ShareColumn(p), v |-> SharePercent(Get(c, p_share))],
          [k |-> c_Quota, v |-> Get(c, p_quota)] >>)

\* the inner loop of downloadExcel: for (const c of res.cells)
RowsOfDimension(p, dim, res) ==
  LET cells == Iterate(Get(res, p_cells)) IN
  IF res.t \in {"null", "undefined"} \/ cells.threw
     \/ \E i \in 1..Len(cells.items) : cells.items[i].t \in {"null", "undefined"}
  THEN [threw |-> TRUE, rows |-> <<>>]
  ELSE [threw |-> FALSE,
        rows |-> [i \in 1..Len(cells.items) |-> ExportRow(p, dim, cells.items[i])]]

\* FlattenEntries, putting each dimension's rows in front (unshift for push)
RECURSIVE FlattenEntriesPrepend(_, _, _)
FlattenEntriesPrepend(p, entries, rows) ==
  IF entries = <<>> THEN [threw |-> FALSE, rows |-> rows]
  ELSE LET d == RowsOfDimension(p, Head(entries).k, Head(entries).v) IN
       IF d.threw THEN [threw |-> TRUE, rows |-> <<>>]
       ELSE FlattenEntriesPrepend(p, Tail(entries), d.rows \o rows)

\* the outer loop of downloadExcel over entries, appending to rows
RECURSIVE FlattenEntries(_, _, _)
FlattenEntries(p, entries, rows) ==
  IF entries = <<>> THEN [threw |-> FALSE, rows |-> rows]
  ELSE LET d == RowsOfDimension(p, Head(entries).k, Head(entries).v) IN
       IF d.threw THEN [threw |-> TRUE, rows |-> <<>>]
       ELSE FlattenEntries(p, Tail(entries), rows \o d.rows)

\* the rows downloadExcel builds from the stored response
Flatten(p, resp) ==
  LET e == ObjectEntries(Get(resp, p_results)) IN
  IF e.threw THEN [threw |-> TRUE, rows |-> <<>>]
  ELSE FlattenEntries(p, e.entries, <<>>)

\* the instants new Date() can return, in time order; each export reads a
\* later one than the export before it
Instants ==
  << [y |-> 2026, mo |-> 11, d |-> 2, h |-> 23, mi |-> 59, s |-> 59, ms |-> 100],
     [y |-> 2026, mo |-> 11, d |-> 2, h |-> 23, mi |-> 59, s |-> 59, ms |-> 900],
     [y |-> 2026, mo |-> 11, d |-> 3, h |-> 0, mi |-> 0, s |-> 0, ms |-> 0] >>

\* Date.prototype.toISOString: YYYY-MM-DDTHH:mm:ss.sssZ
ToISOString(t) ==
  PadDigits(t.y, 4) \o <<"-">> \o PadDigits(t.mo, 2) \o <<"-">> \o PadDigits(t.d, 2)
  \o <<"T">> \o PadDigits(t.h, 2) \o <<":">> \o PadDigits(t.mi, 2) \o <<":">>
  \o PadDigits(t.s, 2) \o <<".">> \o PadDigits(t.ms, 3) \o <<"Z">>

\* s.replace(/[:T]/g, "-")
ReplaceColonT(s) == [i \in 1..Len(s) |-> IF s[i] \in {":", "T"} THEN "-" ELSE s[i]]

\* the name downloadExcel writes to at instant t
FileName(p, t) ==
  CASE p = "part_000" -> FilePrefix \o <<"_">> \o Slice(ToISOString(t), 10) \o FileSuffix
    [] p = "part_001" -> FilePrefix \o FileSuffix
    [] p = "part_002" ->
         FilePrefix \o <<"_">> \o ReplaceColonT(Slice(ToISOString(t), 19)) \o FileSuffix

(***************************************************************************)
(* Bounds and inputs.                                                      *)
(***************************************************************************)
\* postJson calls awaiting their response at one time
MaxInFlight == 2

\* files written in one run
MaxExports == 2

\* the dimension buttons pressed
ToggleKeys == {k_sex}

\* the values of NEXT_PUBLIC_API_BASE
ApiBases == {Undefined, JStr(BaseUrlSlash)}

\* the message of the TypeError a failed fetch rejects with
MsgFailedToFetch == <<"Failed to fetch">>

VARIABLES
  page,       \* the revision of the page component that runs
  apiBase,    \* process.env.NEXT_PUBLIC_API_BASE
  year, ageFrom, ageTo, sampleN, step, sexFilter, dims, data, err, loading,  \* useState
  pending,    \* postJson calls awaiting their response
  lastFetch,  \* the request most recently handed to fetch (Null: none yet)
  files,      \* the files written by XLSX.writeFile, in order
  call        \* the call made on its own (Null: none), see SpecPost and SpecShare

vars ==
  << page, apiBase, year, ageFrom, ageTo, sampleN, step, sexFilter, dims, data, err, loading,
     pending, lastFetch, files, call >>

\* the options of the Sex Filter select
SexFilters == {sf_total, sf_men, sf_women}

\* const payload = useMemo(...): the request object of the current render
payload ==
  JObj(<< [k |-> p_reference, v |-> JObj(<<[k |-> p_year, v |-> JNum(year, 0)]>>)],
          [k |-> p_age_band,
           v |-> JObj(<< [k |-> p_from, v |-> JNum(ageFrom, 0)],
                         [k |-> p_to, v |-> JNum(ageTo, 0)] >>)],
          [k |-> p_sample_n, v |-> JNum(sampleN, 0)],
          [k |-> p_age_grouping_years, v |-> JNum(step, 0)],
          [k |-> p_dimensions, v |-> JArr([i \in 1..Len(dims) |-> JStr(dims[i])])],
          [k |-> p_sex_filter, v |-> JStr(sexFilter)] >>)

\* prev.includes(d)
Includes(ds, d) == \E i \in 1..Len(ds) : ds[i] = d

Init ==
  /\ page \in Pages
  /\ apiBase \in ApiBases
  /\ year = 2025
  /\ ageFrom = 18
  /\ ageTo = IF page = "part_002" THEN 74 ELSE 64
  /\ sampleN = 1000
  /\ step = 10
  /\ sexFilter = sf_total
  /\ dims = <<k_sex, k_age_group, k_county, k_region>>
  /\ data = Null
  /\ err = Null
  /\ loading = FALSE
  /\ pending = 0
  /\ lastFetch = Null
  /\ files = <<>>
  /\ call = Null

\* toggled, adding without looking
toggledAppends(prev, d) == Append(prev, d)

\* toggleDim's updater
toggled(prev, d) ==
  IF Includes(prev, d) THEN SelectSeq(prev, LAMBDA x : x # d) ELSE Append(prev, d)

\* a dimension button is pressed
toggleDim ==
  \E d \in ToggleKeys :
    /\ dims' = toggled(dims, d)
    /\ UNCHANGED << page, apiBase, year, ageFrom, ageTo, sampleN, step, sexFilter, data, err,
                    loading, pending, lastFetch, files, call >>

\* another option of the Sex Filter select is chosen
setSexFilter ==
  \E v \in SexFilters \ {sexFilter} :
    /\ sexFilter' = v
    /\ UNCHANGED << page, apiBase, year, ageFrom, ageTo, sampleN, step, dims, data, err,
                    loading, pending, lastFetch, files, call >>

\* repaired, appending without looking
repairedAlways(sf, ds) == IF sf \in {sf_men, sf_women} THEN Append(ds, k_sex) ELSE ds

\* repaired, without the auto-add
repairedNever(sf, ds) == ds

\* the selection after calculate's auto-add, from the sex filter and selection it rendered with
repaired(sf, ds) == IF sf \in {sf_men, sf_women} /\ ~Includes(ds, k_sex) THEN Append(ds, k_sex) ELSE ds

\* calculate, without its setData(null)
calculateKeepsData ==
  /\ ~(DisablesCalculate(page) /\ loading)
  /\ pending < MaxInFlight
  /\ LET send == postJsonSend(apiBase, CalculatePath, payload) IN
       /\ dims' = repaired(sexFilter, dims)
       /\ IF send.threw
          THEN /\ err' = JStr(send.message)
               /\ loading' = FALSE
               /\ UNCHANGED <<pending, lastFetch>>
          ELSE /\ err' = Null
               /\ loading' = TRUE
               /\ pending' = pending + 1
               /\ lastFetch' = send.fetches[1]
  /\ UNCHANGED <<page, apiBase, year, ageFrom, ageTo, sampleN, step, sexFilter, data, files, call>>

\* the Calculate button is pressed: calculate() up to its await, and, when
\* postJson throws before fetching, its catch and finally as well
calculate ==
  /\ ~(DisablesCalculate(page) /\ loading)
  /\ pending < MaxInFlight
  /\ LET send == postJsonSend(apiBase, CalculatePath, payload) IN
       /\ data' = Null
       /\ dims' = repaired(sexFilter, dims)
       /\ IF send.threw
          THEN /\ err' = JStr(send.message)
               /\ loading' = FALSE
               /\ UNCHANGED <<pending, lastFetch>>
          ELSE /\ err' = Null
               /\ loading' = TRUE
               /\ pending' = pending + 1
               /\ lastFetch' = send.fetches[1]
  /\ UNCHANGED <<page, apiBase, year, ageFrom, ageTo, sampleN, step, sexFilter, files, call>>

\* what the await of postJson yields for each answer of the service
received == [r \in Replies |-> postJsonReceive(r.status, r.text)]

\* a response (r.status, r.text) arrives: calculate() from its await on
settleWith(r) ==
  /\ pending > 0
  /\ LET got == received[r] IN
       IF got.threw
       THEN /\ err' = JStr(got.message)
            /\ UNCHANGED data
       ELSE /\ data' = got.value
            /\ UNCHANGED err
  /\ loading' = FALSE
  /\ pending' = pending - 1
  /\ UNCHANGED << page, apiBase, year, ageFrom, ageTo, sampleN, step, sexFilter, dims,
                  lastFetch, files, call >>

settle == \E r \in Replies : settleWith(r)

\* fetch rejects (the network fails): calculate()'s catch and finally
fetchRejects ==
  /\ pending > 0
  /\ err' = JStr(MsgFailedToFetch)
  /\ loading' = FALSE
  /\ pending' = pending - 1
  /\ UNCHANGED << page, apiBase, year, ageFrom, ageTo, sampleN, step, sexFilter, dims, data,
                  lastFetch, files, call >>

\* the index in Instants of the latest file written (0: none)
LastInstant == IF files = <<>> THEN 0 ELSE files[Len(files)].at

\* downloadExcel, writing an empty sheet where it should return
downloadExcelNoGuard ==
  /\ Len(files) < MaxExports
  /\ LET f == Flatten(page, data) IN
       \E i \in (LastInstant + 1)..Len(Instants) :
         files' = Append(files, [name |-> FileName(page, Instants[i]), sheet |-> SheetName,
                                 rows |-> f.rows, at |-> i])
  /\ UNCHANGED << page, apiBase, year, ageFrom, ageTo, sampleN, step, sexFilter, dims, data,
                  err, loading, pending, lastFetch, call >>

\* downloadExcel() is called
downloadExcel ==
  /\ Truthy(data) => Len(files) < MaxExports
  /\ LET f == Flatten(page, data) IN
       IF ~Truthy(data) \/ f.threw
       THEN UNCHANGED files
       ELSE \E i \in (LastInstant + 1)..Len(Instants) :
              files' = Append(files, [name |-> FileName(page, Instants[i]), sheet |-> SheetName,
                                      rows |-> f.rows, at |-> i])
  /\ UNCHANGED << page, apiBase, year, ageFrom, ageTo, sampleN, step, sexFilter, dims, data,
                  err, loading, pending, lastFetch, call >>

(***************************************************************************)
(* What the page shows for the state it holds (the JSX of Page).           *)
(***************************************************************************)
\* x.toLocaleString() and x.prop throw a TypeError on null and undefined
Nullish(v) == v.t \in {"null", "undefined"}

\* data.meta?.errors
MetaErrors(resp) ==
  IF Nullish(Get(resp, p_meta)) THEN Undefined ELSE Get(Get(resp, p_meta), p_errors)

\* whether rendering one dimension's block throws
PanelThrows(res) ==
  \/ Nullish(res)
  \/ Nullish(Get(res, p_base))
  \/ Get(res, p_cells).t # "arr"
  \/ \E i \in 1..Len(Get(res, p_cells).a) :
       \/ Nullish(Get(res, p_cells).a[i])
       \/ Nullish(Get(Get(res, p_cells).a[i], p_pop))

\* whether rendering the stored response throws
RenderThrows(p, resp) ==
  /\ Truthy(resp)
  /\ \/ /\ p \in {"part_000", "part_002"}
        /\ Nullish(Get(resp, p_population_total)) \/ Nullish(Get(resp, p_sample_n))
     \/ ObjectEntries(Get(resp, p_results)).threw
     \/ \E i \in 1..Len(ObjectEntries(Get(resp, p_results)).entries) :
          PanelThrows(ObjectEntries(Get(resp, p_results)).entries[i].v)

\* the dimension blocks shown: a title and the labels of the table's rows
RenderedDimensions(p, resp) ==
  IF ~Truthy(resp) \/ RenderThrows(p, resp) THEN <<>>
  ELSE LET es == ObjectEntries(Get(resp, p_results)).entries IN
       [i \in 1..Len(es) |->
          [title |-> DimensionLabel(p, es[i].k),
           labels |-> [j \in 1..Len(Get(es[i].v, p_cells).a) |->
                         Get(Get(es[i].v, p_cells).a[j], p_label)]]]

\* the value shown in the "Some dimensions failed" block (Null: no block)
ErrorsPanel(p, resp) ==
  IF /\ Truthy(resp)
     /\ ~RenderThrows(p, resp)
     /\ ShowsMetaErrors(p)
     /\ Truthy(MetaErrors(resp))
     /\ Len(ObjectEntries(MetaErrors(resp)).entries) > 0
  THEN MetaErrors(resp)
  ELSE Null

\* the text of the error box (Null: no box)
ErrorBox == IF Truthy(err) THEN err ELSE Null

(***************************************************************************)
(* postJson on its own, against every base, status and body of the input   *)
(* sets below.                                                             *)
(***************************************************************************)
\* n times the character c
Repeat(c, n) == [i \in 1..n |-> c]

PostBases == {Undefined, JStr(<<>>), JStr(BaseUrl), JStr(BaseUrlSlash)}

PostStatuses == {199, 200, 204, 299, 300, 404, 500}

PostTexts ==
  { <<>>, <<" ">>, <<"\n", " ", "\t">>, <<"NBSP">>, <<"NBSP", "7">>, <<" ", "7", " ">>,
    <<"{", "}">>, <<"n", "u", "l", "l">>, <<"[", "1", ",", "]">>,
    BodyExploded, BodyNotJson, BodyCounty,
    Repeat("x", SliceLen), Repeat("x", SliceLen + 1), Repeat(" ", SliceLen + 1) \o <<"7">> }

InitPost ==
  /\ page = "part_000"
  /\ apiBase \in PostBases
  /\ year = 2025
  /\ ageFrom = 18
  /\ ageTo = 64
  /\ sampleN = 1000
  /\ step = 10
  /\ sexFilter = sf_total
  /\ dims = <<k_sex, k_age_group, k_county, k_region>>
  /\ data = Null
  /\ err = Null
  /\ loading = FALSE
  /\ pending = 0
  /\ lastFetch = Null
  /\ files = <<>>
  /\ call = Null

\* one call of postJson, the service answering (status, text)
postJsonCall ==
  /\ call = Null
  /\ \E status \in PostStatuses, text \in PostTexts :
       call' = [base |-> apiBase, status |-> status, text |-> text,
                result |-> postJson(apiBase, CalculatePath, payload, status, text)]
  /\ UNCHANGED << page, apiBase, year, ageFrom, ageTo, sampleN, step, sexFilter, dims, data,
                  err, loading, pending, lastFetch, files >>

NextPost == postJsonCall

SpecPost == InitPost /\ [][NextPost]_vars

(***************************************************************************)
(* The SharePercent of an export row on its own, for every share of the    *)
(* input set below.                                                        *)
(***************************************************************************)
\* the shares tried are the multiples of 0.00001 up to MaxShare of them
MaxShare == 120

Shares ==
  {JNum(k, 5) : k \in 0..MaxShare}
    \cup {JNum(33333, 5), JNum(6667, 4), JNum(3125, 5), JNum(5, 1), JNum(99995, 5), JNum(1, 0)}

InitShare ==
  /\ page = "part_001"
  /\ apiBase = JStr(BaseUrl)
  /\ year = 2025
  /\ ageFrom = 18
  /\ ageTo = 64
  /\ sampleN = 1000
  /\ step = 10
  /\ sexFilter = sf_total
  /\ dims = <<k_sex, k_age_group, k_county, k_region>>
  /\ data = Null
  /\ err = Null
  /\ loading = FALSE
  /\ pending = 0
  /\ lastFetch = Null
  /\ files = <<>>
  /\ call = Null

\* the SharePercent of one row is computed from a cell of the given share
sharePercentCall ==
  /\ call = Null
  /\ \E share \in Shares :
       call' = [share |-> share,
                result |-> Get(ExportRow(page, k_county, JObj(<<[k |-> p_share, v |-> share]>>)),
                               c_SharePercent)]
  /\ UNCHANGED << page, apiBase, year, ageFrom, ageTo, sampleN, step, sexFilter, dims, data,
                  err, loading, pending, lastFetch, files >>

NextShare == sharePercentCall

SpecShare == InitShare /\ [][NextShare]_vars

Next == toggleDim \/ setSexFilter \/ calculate \/ settle \/ fetchRejects \/ downloadExcel

Spec == Init /\ [][Next]_vars


(***************************************************************************)
(* Properties.                                                             *)
(***************************************************************************)
MenOrWomen == {sf_men, sf_women}

\* the number of times key d occurs in the selection ds
Count(ds, d) == Cardinality({i \in 1..Len(ds) : ds[i] = d})

\* the body of the request most recently handed to fetch, read back
SentPayload == JsonParse(lastFetch.body).v

\* C1: every request sent with sex_filter men or women lists "sex" among its
\* dimensions, also when "sex" was not selected when Calculate was pressed.
C1_SentRequestHasSex ==
  lastFetch # Null =>
    (Get(SentPayload, p_sex_filter) \in {JStr(sf_men), JStr(sf_women)} =>
       \E i \in 1..Len(Get(SentPayload, p_dimensions).a) :
         Get(SentPayload, p_dimensions).a[i] = JStr(k_sex))

\* C2: a calculate attempt made with sexFilter men or women leaves "sex" in the
\* stored selection, exactly once, and leaves a selection that already holds
\* "sex" as it was.
C2_RepairIdempotent ==
  [][(calculate /\ sexFilter \in MenOrWomen) =>
       /\ Count(dims', k_sex) = 1
       /\ (Includes(dims, k_sex) => dims' = dims)
       /\ (~Includes(dims, k_sex) => dims' = Append(dims, k_sex))]_vars

\* a request went out without "sex" under a men/women filter, and the stored
\* selection holds the "sex" the attempt added at its end
C2_Witness ==
  /\ lastFetch # Null
  /\ loading
  /\ sexFilter \in MenOrWomen
  /\ Get(SentPayload, p_sex_filter) = JStr(sexFilter)
  /\ Get(SentPayload, p_dimensions) = JArr(<<JStr(k_age_group), JStr(k_county), JStr(k_region)>>)
  /\ dims = <<k_age_group, k_county, k_region, k_sex>>

\* a men/women filter has "sex" selected
SexSelectedWhenFiltered == sexFilter \in MenOrWomen => Includes(dims, k_sex)

\* C3 as stated: in every reachable state, a men/women filter has "sex" selected.
C3_SexAlwaysSelected == SexSelectedWhenFiltered

\* C3, amended: every calculate attempt leaves a men/women filter with "sex"
\* selected, and only a dimension toggle or a change of the sex filter undoes that.
C3_RepairedAtCalculate ==
  [][/\ calculate => SexSelectedWhenFiltered'
     /\ (SexSelectedWhenFiltered /\ ~SexSelectedWhenFiltered') => (toggleDim \/ setSexFilter)]_vars

\* a calculate attempt has failed for want of a base URL under a men/women
\* filter whose "sex" had been toggled off, and "sex" is back in the selection
C3_Witness ==
  /\ ~Truthy(apiBase)
  /\ Truthy(err)
  /\ sexFilter \in MenOrWomen
  /\ dims = <<k_age_group, k_county, k_region, k_sex>>

\* C4: at most one request is in flight, and while one is the page is loading.
C4_AtMostOneInFlight == pending <= 1 /\ (pending > 0 => loading)

\* JSON.parse of each answer's body
parsedReply == [r \in Replies |-> JsonParse(r.text)]

\* C5: starting a calculate clears the stored response; a response that parses
\* is stored as it is, whatever was stored before; nothing else changes it.
C5_StoredIsLastSettled ==
  [][/\ calculate => data' = Null
     /\ \A r \in Replies :
          (settleWith(r) /\ ResOk(r.status) /\ parsedReply[r].ok) => data' = parsedReply[r].v
     /\ data' # data => (calculate \/ settle)]_vars

\* a response is stored while a later call is still in flight
C5_Witness == Truthy(data) /\ pending > 0 /\ ~loading

\* a calculate attempt ends in failure
FailureStep ==
  \/ calculate /\ ~Truthy(apiBase)
  \/ fetchRejects
  \/ \E r \in Replies : settleWith(r) /\ (~ResOk(r.status) \/ ~parsedReply[r].ok)

\* C6: a failed attempt ends with the message stored, no stored response,
\* loading reset and no further request.
C6_FailureClearsAndReports ==
  [][FailureStep =>
       /\ Truthy(err')
       /\ data' = Null
       /\ ~loading'
       /\ lastFetch' = lastFetch
       /\ pending' <= pending]_vars

\* the first n characters of t, or all of t
Prefix(t, n) == [i \in 1..(IF Len(t) < n THEN Len(t) ELSE n) |-> t[i]]

\* C7: postJson's outcome by precedence: no base, then the status, then an
\* empty body, then a body that does not parse, else the parsed value; one
\* POST exactly unless the base is missing; at most 500 characters quoted.
C7_PostJsonOutcome ==
  call # Null =>
    LET r == call.result
        okStatus == call.status \in 200..299
        blank == \A i \in 1..Len(call.text) : call.text[i] \in TrimWs
        parsed == JsonParse(call.text)
    IN  IF call.base = Undefined \/ call.base = JStr(<<>>)
        THEN r.threw /\ r.message = MsgMissingBase /\ r.fetches = <<>>
        ELSE /\ Len(r.fetches) = 1
             /\ r.fetches[1].method = "POST"
             /\ r.fetches[1].url = BaseUrl \o CalculatePath
             /\ IF ~okStatus
                THEN /\ r.threw
                     /\ r.message = <<"API ">> \o DigitsOf(call.status) \o <<": ">>
                                      \o Prefix(call.text, 500)
                ELSE IF blank THEN r.threw /\ r.message = MsgEmptyBody
                ELSE IF ~parsed.ok
                THEN /\ r.threw
                     /\ r.message = <<"API returned non-JSON: ">> \o Prefix(call.text, 500)
                ELSE ~r.threw /\ r.value = parsed.v

\* a 500 answer whose body is longer than 500 characters, quoted up to 500
C7_Witness ==
  /\ call # Null
  /\ call.base = JStr(BaseUrlSlash)
  /\ call.status = 500
  /\ Len(call.text) > 500
  /\ Trim(call.text) # <<>>
  /\ call.result.threw
  /\ Len(call.result.message) = 5 + 500

\* C8: a stored response with a non-empty meta.errors is shown in full: no
\* crash, one block per dimension of results, and the errors in a block of their own.
C8_PartialRendered ==
  (Truthy(data) /\ Truthy(MetaErrors(data)) /\ ObjectEntries(MetaErrors(data)).entries # <<>>) =>
    /\ ~RenderThrows(page, data)
    /\ Len(RenderedDimensions(page, data)) = Len(ObjectEntries(Get(data, p_results)).entries)
    /\ ErrorsPanel(page, data) = MetaErrors(data)

\* C9: downloadExcel called with no stored response changes nothing.
C9_ExportNoopWithoutData ==
  [][(downloadExcel /\ ~Truthy(data)) => UNCHANGED vars]_vars

\* a calculate attempt has failed, nothing is stored, nothing is written
C9_Witness == ~Truthy(data) /\ Truthy(err) /\ ~loading /\ lastFetch # Null /\ files = <<>>

\* the entries of results, in iteration order
ResultEntries(resp) == ObjectEntries(Get(resp, p_results)).entries

\* the number of cells of the dimensions es
RECURSIVE SumCells(_)
SumCells(es) ==
  IF es = <<>> THEN 0 ELSE Len(Get(Head(es).v, p_cells).a) + SumCells(Tail(es))

\* the n-th cell of the dimensions es, counting through them in order
RECURSIVE NthCell(_, _)
NthCell(es, n) ==
  LET cells == Get(Head(es).v, p_cells).a IN
  IF n <= Len(cells) THEN cells[n] ELSE NthCell(Tail(es), n - Len(cells))

\* C10: a written file has one row per cell of the stored response, in the
\* order of results and, within a dimension, of its cells.
C10_OneRowPerCellInOrder ==
  [][files' # files =>
       LET rows == files'[Len(files')].rows
           es == ResultEntries(data)
       IN  /\ Len(rows) = SumCells(es)
           /\ \A n \in 1..Len(rows) :
                /\ Get(rows[n], c_Label) = Get(NthCell(es, n), p_label)
                /\ Get(rows[n], c_Population) = Get(NthCell(es, n), p_pop)
                /\ Get(rows[n], c_Quota) = Get(NthCell(es, n), p_quota)]_vars

\* a file of three rows is written from a response of two dimensions
C10_Witness ==
  /\ files # <<>>
  /\ Len(files[1].rows) = 3
  /\ Len(ResultEntries(data)) = 2

\* the key of the dimension that holds the n-th cell of the dimensions es
RECURSIVE NthKey(_, _)
NthKey(es, n) ==
  LET cells == Get(Head(es).v, p_cells).a IN
  IF n <= Len(cells) THEN Head(es).k ELSE NthKey(Tail(es), n - Len(cells))

\* C11: in every row of a written file, Dimension is the label of the row's
\* dimension key: the catalog's label for a catalog key, and otherwise the key
\* with its underscores made spaces and its words capitalised.
C11_DimensionIsLabel ==
  [][files' # files =>
       LET rows == files'[Len(files')].rows
           es == ResultEntries(data)
       IN  \A n \in 1..Len(rows) :
             LET key == NthKey(es, n)
                 d == Get(rows[n], c_Dimension)
             IN  /\ \A i \in 1..Len(DIMENSIONS) :
                      DIMENSIONS[i].key = key => d = JStr(DIMENSIONS[i].label)
                 /\ (\A i \in 1..Len(DIMENSIONS) : DIMENSIONS[i].key # key) =>
                      d = JStr(TitleCase(ReplaceUnderscores(key)))]_vars

\* the names of the columns of an export row, in order
ColumnsOf(row) == [i \in 1..Len(row.o) |-> row.o[i].k]

\* C12: every row of a written file has the columns Dimension, Label,
\* Population, SharePercent, Quota, in that order, with Label, Population and
\* Quota the cell's label, pop and quota.
C12_ColumnsInOrder ==
  [][files' # files =>
       LET rows == files'[Len(files')].rows
           es == ResultEntries(data)
       IN  \A n \in 1..Len(rows) :
             /\ ColumnsOf(rows[n]) =
                  <<c_Dimension, c_Label, c_Population, c_SharePercent, c_Quota>>
             /\ Get(rows[n], c_Label) = Get(NthCell(es, n), p_label)
             /\ Get(rows[n], c_Population) = Get(NthCell(es, n), p_pop)
             /\ Get(rows[n], c_Quota) = Get(NthCell(es, n), p_quota)]_vars

\* whether name is quota_results_<stamp>.xlsx for some stamp of one character or more
StampedName(name) ==
  LET pre == FilePrefix \o <<"_">>
      n == Len(name)
  IN  /\ n > Len(pre) + Len(FileSuffix)
      /\ SubSeq(name, 1, Len(pre)) = pre
      /\ SubSeq(name, n - Len(FileSuffix) + 1, n) = FileSuffix

\* C13: every file written is named quota_results_<timestamp>.xlsx, and two
\* files written at different instants have different names.
C13_FileNamesDistinct ==
  /\ \A i \in 1..Len(files) : StampedName(files[i].name)
  /\ \A i, j \in 1..Len(files) :
       files[i].at # files[j].at => files[i].name # files[j].name

\* share * 100 in hundredths, rounded in decimal arithmetic, a tie going up
HalfUpHundredths(share) ==
  IF share.e <= 4 THEN share.m * Pow10(4 - share.e)
  ELSE LET unit == Pow10(share.e - 4)
           q == share.m \div unit
           r == share.m % unit
       IN  IF 2 * r >= unit THEN q + 1 ELSE q

\* share * 100 in hundredths, rounded in decimal arithmetic, a tie going to the even side
HalfEvenHundredths(share) ==
  IF share.e <= 4 THEN share.m * Pow10(4 - share.e)
  ELSE LET unit == Pow10(share.e - 4)
           q == share.m \div unit
           r == share.m % unit
       IN  IF 2 * r > unit \/ (2 * r = unit /\ q % 2 = 1) THEN q + 1 ELSE q

\* the hundredths nearest to 100 times the double that share is parsed to,
\* the product taken exactly
ExactHundredths(share) ==
  LET x == ToDouble(share.m, share.e) IN
  (BigToInt(Shr(BigMul(BigMul(x.m, 100), 200), x.s)) + 1) \div 2

\* C14: the SharePercent of a row is its cell's share times 100 rounded to 2
\* decimal places, for a share in [0, 1]; the rounding may be the decimal one
\* with a tie going up or to the even side, or that of the exact product of
\* the share as a double.
C14_SharePercentRounded ==
  (call # Null /\ call.share.m <= Pow10(call.share.e)) =>
    \E n \in {HalfUpHundredths(call.share), HalfEvenHundredths(call.share),
              ExactHundredths(call.share)} :
      call.result = NormNum(JNum(n, 2))

\* the keys of a selection, as a set
KeySet(ds) == {ds[i] : i \in 1..Len(ds)}

\* C15: from every selection reached, toggling any key of the catalog twice in
\* succession gives a selection of the same set of keys.
C15_ToggleTwiceSameSet ==
  \A i \in 1..Len(DIMENSIONS) :
    KeySet(toggled(toggled(dims, DIMENSIONS[i].key), DIMENSIONS[i].key)) = KeySet(dims)

\* "sex" has been toggled off and on again, and nothing else has happened:
\* the same keys, "sex" now last
C15_Witness ==
  /\ dims = <<k_age_group, k_county, k_region, k_sex>>
  /\ sexFilter = sf_total
  /\ lastFetch = Null
  /\ err = Null

\* C16: the page never holds a stored response and an error message at once,
\* and while loading is false no request is in flight.
C16_DataOrErrorAndLoading ==
  /\ ~(Truthy(data) /\ Truthy(err))
  /\ ~loading => pending = 0
=============================================================================
